---- MODULE Spec2Model ----
(***************************************************************************)
(* wat2wasm4tests.py: the run of the script over one source file.          *)
(*                                                                         *)
(* Text is a sequence of lexical tokens, each standing for the characters  *)
(* named beside it.  Offsets are Python offsets: the number of tokens that *)
(* precede a place, so s[a:b] is Slice(s, a, b).                           *)
(*                                                                         *)
(*   "OPEN"    /* wat2wasm          "star"  *        "slash"  /            *)
(*   "nl"      \n    "sp"  space    "tab"   \t       "cr"     \r           *)
(*   "const"   const_               "auto"  auto wasm =                    *)
(*   "ns"      fizzy::test::        "fromhex"  from_hex(                   *)
(*   "let"     let wasm =           "decode"   hex::decode(                *)
(*   "q"       "     "rp"  )        "unwrap"   .unwrap()    "sc"  ;        *)
(*   "0".."9", "a".."f"  the digit characters                              *)
(*   "w", "x"  a word of WAT text, a word of other text                    *)
(*   "T"       the name TMP_WAT_FILE      "P"  the path source_path        *)
(*   ":"       a colon                                                     *)
(***************************************************************************)
EXTENDS Integers, Sequences, FiniteSets, TLC

\* ------------------------------------------------------------------ bounds

\* The file text is a concatenation of at most MaxSegs segments of Segs.
MaxSegs == 3
\* A diagnostic is a concatenation of at most MaxErrSegs pieces of ErrPieces.
MaxErrSegs == 3
\* The line of a block's body passed to report_wat_errors is 0..MaxWatLine.
MaxWatLine == 3

\* ------------------------------------------------------------ text helpers

\* s[a:b] of Python, for 0 <= a, b.
Slice(s, a, b) == IF b <= a THEN << >> ELSE SubSeq(s, a + 1, IF b <= Len(s) THEN b ELSE Len(s))

\* "".join((s[:a], mid, s[b:])), the splice of lines 127 and 131-135; and
\* the same with the tail taken one character late.
Join3_DropsOne(s, a, mid, b) == Slice(s, 0, a) \o mid \o Slice(s, b + 1, Len(s))
Join3(s, a, mid, b) == Slice(s, 0, a) \o mid \o Slice(s, b, Len(s))

\* The least index i in from..Len(s) with s[i] in toks, or 0.
RECURSIVE FirstIn(_, _, _)
FirstIn(s, from, toks) ==
  IF from > Len(s) THEN 0
  ELSE IF s[from] \in toks THEN from
  ELSE FirstIn(s, from + 1, toks)

\* The characters \s matches, as tokens.
WhiteSpace == {"sp", "nl", "tab", "cr"}

\* The index after a greedy \s* that starts at index i.
RECURSIVE SkipWs(_, _)
SkipWs(s, i) ==
  IF i <= Len(s) /\ s[i] \in WhiteSpace THEN SkipWs(s, i + 1) ELSE i

\* The index after an optional token tok at index i.
SkipOpt(s, i, tok) == IF i <= Len(s) /\ s[i] = tok THEN i + 1 ELSE i

\* s.count('\n', 0, end)
RECURSIVE CountNl(_, _)
CountNl(s, end) ==
  IF end <= 0 THEN 0
  ELSE CountNl(s, end - 1) + (IF end <= Len(s) /\ s[end] = "nl" THEN 1 ELSE 0)

\* str.split(): the maximal runs of tokens that are not white space.
RECURSIVE Split(_)
Split(s) ==
  IF s = << >> THEN << >>
  ELSE IF s[1] \in WhiteSpace THEN Split(Tail(s))
  ELSE LET e == FirstIn(s, 1, WhiteSpace)
           n == IF e = 0 THEN Len(s) ELSE e - 1
       IN  <<SubSeq(s, 1, n)>> \o Split(Slice(s, n, Len(s)))

\* ------------------------------------------------------------------- WAT_RE

NoMatch == [found |-> FALSE]

\* The tokens that hold a '*': [^*]* stops at the first of them.
HoldsStar == {"star", "OPEN"}

\* WAT_RE matched at index i (1-based) of s: /\* wat2wasm(.*)\n([^*]*)\*/
\* (.*) runs to the end of the line, ([^*]*) to the first '*', which must
\* begin the closing */.
WatMatchAt(s, i) ==
  IF i > Len(s) \/ s[i] # "OPEN" THEN NoMatch
  ELSE LET n == FirstIn(s, i + 1, {"nl"})
       IN  IF n = 0 THEN NoMatch
           ELSE LET k == FirstIn(s, n + 1, HoldsStar)
                IN  IF k = 0 \/ s[k] # "star" \/ k + 1 > Len(s) \/ s[k + 1] # "slash"
                    THEN NoMatch
                    ELSE [found   |-> TRUE,
                          start   |-> i - 1,
                          options |-> Slice(s, i, n - 1),
                          wat     |-> Slice(s, n, k - 1),
                          watAt   |-> n,
                          watEnd  |-> k - 1,
                          end     |-> k + 1]

\* The leftmost match of WAT_RE that starts at index i or later.
RECURSIVE WatSearchFrom(_, _)
WatSearchFrom(s, i) ==
  IF i > Len(s) THEN NoMatch
  ELSE LET m == WatMatchAt(s, i)
       IN  IF m.found THEN m ELSE WatSearchFrom(s, i + 1)

\* WAT_RE.search(s, p): the leftmost match that starts at offset p or later;
\* and WAT_RE.search(s), which starts over.
WAT_RE_search_IgnoresPos(s, p) == WatSearchFrom(s, 1)
WAT_RE_search(s, p) == WatSearchFrom(s, p + 1)

\* ------------------------------------------------- WASM_CPP_RE, WASM_RUST_RE

\* The tail "([^;]*)"<close>; of both patterns, the payload starting at index
\* b: [^;]* is greedy and gives back, so the ';' matched is the first one at
\* or after b and the payload ends right before the tokens in front of it.
LitTail(s, b, close) ==
  LET m == FirstIn(s, b, {"sc"})
      c == Len(close)
  IN  IF m = 0 \/ m - c < b \/ SubSeq(s, m - c, m - 1) # close THEN NoMatch
      ELSE [found |-> TRUE, begin |-> b - 1, end |-> m - c - 1, stop |-> m]

\* WASM_CPP_RE.match(s, p):
\*   \s*(?:const )?auto \w+ =\s*(?:fizzy\:\:test\:\:)?from_hex\(\s*"([^;]*)"\);
WASM_CPP_RE_match(s, p) ==
  LET a == SkipOpt(s, SkipWs(s, p + 1), "const")
      h == SkipOpt(s, SkipWs(s, a + 1), "ns")
      o == SkipWs(s, h + 1)
  IN  IF a > Len(s) \/ s[a] # "auto" THEN NoMatch
      ELSE IF h > Len(s) \/ s[h] # "fromhex" THEN NoMatch
      ELSE IF o > Len(s) \/ s[o] # "q" THEN NoMatch
      ELSE LitTail(s, o + 1, <<"q", "rp">>)

\* WASM_RUST_RE.match(s, p):
\*   \s*let \w+ =\s*hex::decode\(\s*"([^;]*)"\).unwrap\(\);
\* (the '.' of the pattern is not escaped: "unwrap" stands for any character
\* followed by unwrap())
WASM_RUST_RE_match(s, p) ==
  LET a == SkipWs(s, p + 1)
      h == SkipWs(s, a + 1)
      o == SkipWs(s, h + 1)
  IN  IF a > Len(s) \/ s[a] # "let" THEN NoMatch
      ELSE IF h > Len(s) \/ s[h] # "decode" THEN NoMatch
      ELSE IF o > Len(s) \/ s[o] # "q" THEN NoMatch
      ELSE LitTail(s, o + 1, <<"q", "rp", "unwrap">>)

\* wasm_re.match(source, pos) with wasm_re chosen by cpp_source (line 119).
wasm_re_match(cpp, s, p) ==
  IF cpp THEN WASM_CPP_RE_match(s, p) ELSE WASM_RUST_RE_match(s, p)

\* ---------------------------------------------------------- hex, templates

HexDigits == <<"0", "1", "2", "3", "4", "5", "6", "7", "8", "9",
               "a", "b", "c", "d", "e", "f">>

\* bytes.hex(): two lowercase digits a byte.
RECURSIVE hex(_)
hex(bytes) ==
  IF bytes = << >> THEN << >>
  ELSE <<HexDigits[(bytes[1] \div 16) + 1], HexDigits[(bytes[1] % 16) + 1]>>
       \o hex(Tail(bytes))

\* cur_wasm.translate({ord(c): '' for c in ' \r\n"'}); and a translate that
\* removes the spaces only.
StripChars == {"sp", "cr", "nl", "q"}

RECURSIVE translate_SpacesOnly(_)
translate_SpacesOnly(s) ==
  IF s = << >> THEN << >>
  ELSE (IF s[1] = "sp" THEN << >> ELSE <<s[1]>>) \o translate_SpacesOnly(Tail(s))

RECURSIVE translate(_)
translate(s) ==
  IF s = << >> THEN << >>
  ELSE (IF s[1] \in StripChars THEN << >> ELSE <<s[1]>>) \o translate(Tail(s))

\* The statement lines 131-135 insert around new_wasm; and one that lacks the
\* closing quote.
NewLiteral_NoQuote(cpp, new_wasm) ==
  IF cpp THEN <<"const", "auto", "sp", "fromhex", "q">> \o new_wasm \o <<"rp", "sc">>
  ELSE <<"let", "sp", "decode", "q">> \o new_wasm \o <<"rp", "unwrap", "sc">>

NewLiteral(cpp, new_wasm) ==
  IF cpp THEN <<"const", "auto", "sp", "fromhex", "q">> \o new_wasm \o <<"q", "rp", "sc">>
  ELSE <<"let", "sp", "decode", "q">> \o new_wasm \o <<"q", "rp", "unwrap", "sc">>

\* --------------------------------------------------------- report_wat_errors

Digits == {"0", "1", "2", "3", "4", "5", "6", "7", "8", "9"}

DigitVal(d) == (CHOOSE i \in 1..10 : HexDigits[i] = d) - 1

\* int(digits)
RECURSIVE int(_)
int(ds) ==
  IF ds = << >> THEN 0
  ELSE 10 * int(SubSeq(ds, 1, Len(ds) - 1)) + DigitVal(ds[Len(ds)])

\* str(n), n >= 0
RECURSIVE str(_)
str(n) ==
  IF n < 10 THEN <<HexDigits[n + 1]>>
  ELSE str(n \div 10) \o <<HexDigits[(n % 10) + 1]>>

\* The index after the run of digits that starts at index i.
RECURSIVE SkipDigits(_, _)
SkipDigits(s, i) ==
  IF i <= Len(s) /\ s[i] \in Digits THEN SkipDigits(s, i + 1) ELSE i

\* line_re matched at index i of s: TMP_WAT_FILE ':' (\d+) ':' (line 57).
LineMatchAt(s, i) ==
  IF i + 1 > Len(s) \/ s[i] # "T" \/ s[i + 1] # ":" THEN NoMatch
  ELSE LET e == SkipDigits(s, i + 2)
       IN  IF e = i + 2 \/ e > Len(s) \/ s[e] # ":" THEN NoMatch
           ELSE [found |-> TRUE, s0 |-> i + 1, s1 |-> e - 1, end |-> e]

\* line_re.search(errmsg, p)
RECURSIVE LineSearchFrom(_, _)
LineSearchFrom(s, i) ==
  IF i > Len(s) THEN NoMatch
  ELSE LET m == LineMatchAt(s, i)
       IN  IF m.found THEN m ELSE LineSearchFrom(s, i + 1)

line_re_search(s, p) == LineSearchFrom(s, p + 1)

\* The loop of lines 59-67, entered with errmsg and p.
RECURSIVE RemapLoop(_, _, _)
RemapLoop(errmsg, p, wat_line) ==
  LET line_match == line_re_search(errmsg, p)
  IN  IF ~line_match.found THEN errmsg
      ELSE LET n == int(Slice(errmsg, line_match.s0, line_match.s1))
           IN  RemapLoop(Join3(errmsg, line_match.s0, str(wat_line + n), line_match.s1),
                         line_match.end, wat_line)

\* errmsg.replace(TMP_WAT_FILE, source_path)
RECURSIVE replace(_, _, _)
replace(s, old, new) ==
  IF s = << >> THEN << >>
  ELSE <<IF s[1] = old THEN new ELSE s[1]>> \o replace(Tail(s), old, new)

\* What report_wat_errors prints to stderr (lines 55-70).
report_wat_errors(errmsg, source, source_path, wat_pos) ==
  LET wat_line == CountNl(source, wat_pos)
  IN  replace(RemapLoop(errmsg, 0, wat_line), "T", source_path)

\* -------------------------------------------------------------------- inputs

RECURSIVE Flatten(_)
Flatten(ss) == IF ss = << >> THEN << >> ELSE Head(ss) \o Flatten(Tail(ss))

\* A block without options, a block with one option and a two-line body.
BlockA == <<"OPEN", "nl", "w", "star", "slash">>
BlockB == <<"OPEN", "sp", "w", "nl", "w", "nl", "star", "slash">>

\* Literal statements of a dialect: one split over two lines the way a
\* formatter breaks a long string, one with a tab inside the payload.
Literals(cpp) ==
  IF cpp
  THEN {<<"auto", "nl", "ns", "fromhex", "q", "0", "q", "nl", "sp", "q", "a", "q", "rp", "sc">>,
        <<"nl", "const", "auto", "sp", "fromhex", "q", "0", "tab", "a", "q", "rp", "sc">>}
  ELSE {<<"let", "nl", "decode", "q", "0", "q", "nl", "sp", "q", "a", "q", "rp", "unwrap", "sc">>,
        <<"nl", "let", "sp", "decode", "q", "0", "tab", "a", "q", "rp", "unwrap", "sc">>}

\* Other text: a word, an opening that is never closed, a closing sequence.
Others == {<<"x">>, <<"OPEN", "nl">>, <<"star", "slash">>}

Segs(cpp) == {BlockA, BlockB} \cup Literals(cpp) \cup Others

\* The texts of at most max segments.
Texts(cpp, max) ==
  {Flatten(ss) : ss \in UNION {[1..n -> Segs(cpp)] : n \in 0..max}}

\* What the compiler writes to TMP_WASM_FILE: the bytes 0a, the bytes a0.
Binaries == {<<10>>, <<160>>}

\* What the compiler writes to stderr: two lines naming TMP_WAT_FILE.
ErrMsgs == {<<"T", ":", "2", ":", "x", "nl", "T", ":", "1", ":", "x">>}

\* subprocess.run's result r, and the file the tool left (lines 109-117).
Results ==
  {[returncode |-> 1, stderr |-> e, wasm |-> << >>] : e \in ErrMsgs}
  \cup {[returncode |-> 0, stderr |-> << >>, wasm |-> b] : b \in Binaries}

WAT2WASM_DEFAULT_OPTIONS ==
  <<<<"--disable-saturating-float-to-int">>, <<"--disable-sign-extension">>,
    <<"--disable-multi-value">>>>

\* --------------------------------------------------------------------- state

VARIABLES
  argv,        \* the extension of sys.argv[1]: "cpp", "rs", "other"; "none" without it
  file,        \* the text of the file at source_path
  tmp_wat,     \* os.path.exists(TMP_WAT_FILE)
  tmp_wasm,    \* os.path.exists(TMP_WASM_FILE)
  wat2wasm,    \* the tool, a function of its input: the runs made so far
  pc,          \* the statement the script is at
  cpp_source,
  source,
  modified,
  pos,
  exc,         \* the exception the handler of lines 152-153 printed, "" for none
  writes,      \* writes of source_path by this run
  formats,     \* invocations of the formatter by this run
  run,         \* 1: the first run of the script, 2: a second run on the same file
  orig,        \* history: the text of the file when this run started
  prov,        \* history: for each token of source its index in orig, 0 for a new one
  log,         \* history: one record for each block this run has processed
  prevLog,     \* history: log of the first run
  errmsg,      \* report_wat_errors alone: the diagnostic it is given
  printed      \* report_wat_errors alone: what it printed

vars == <<argv, file, tmp_wat, tmp_wasm, wat2wasm, pc, cpp_source, source, modified,
          pos, exc, writes, formats, run, orig, prov, log, prevLog, errmsg, printed>>

remapVars == <<errmsg, printed>>
\* The script is started on a file of at most max segments.
Start(max) ==
  /\ argv \in {"none", "other", "cpp", "rs"}
  /\ file \in (IF argv \in {"cpp", "rs"} THEN Texts(argv = "cpp", max) ELSE {BlockA})
  /\ tmp_wat \in BOOLEAN
  /\ tmp_wasm = tmp_wat
  /\ wat2wasm = {}
  /\ pc = "start"
  /\ cpp_source = FALSE
  /\ source = << >>
  /\ modified = FALSE
  /\ pos = 0
  /\ exc = ""
  /\ writes = 0
  /\ formats = 0
  /\ run = 1
  /\ orig = file
  /\ prov = << >>
  /\ log = << >>
  /\ prevLog = << >>
  /\ errmsg = << >>
  /\ printed = << >>

Init == Start(MaxSegs)

\* ------------------------------------------------------------ lines 73-90

\* lines 74-75, 152-153: len(sys.argv) < 2; the handler prints the exception
MissingArgument ==
  /\ pc = "start"
  /\ argv = "none"
  /\ exc' = "Missing FILE argument"
  /\ pc' = "cleanup"
  /\ UNCHANGED <<argv, file, tmp_wat, tmp_wasm, wat2wasm, cpp_source, source, modified,
                 pos, writes, formats, run, orig, prov, log, prevLog, remapVars>>

\* lines 79-85, 152-153: neither CPP_EXTENSION nor RS_EXTENSION
UnsupportedExtension ==
  /\ pc = "start"
  /\ argv = "other"
  /\ exc' = "File extension not supported"
  /\ pc' = "cleanup"
  /\ UNCHANGED <<argv, file, tmp_wat, tmp_wasm, wat2wasm, cpp_source, source, modified,
                 pos, writes, formats, run, orig, prov, log, prevLog, remapVars>>

\* lines 79-91
ReadSource ==
  /\ pc = "start"
  /\ argv \in {"cpp", "rs"}
  /\ cpp_source' = (argv = "cpp")
  /\ source' = file
  /\ prov' = [i \in 1..Len(file) |-> i]
  /\ modified' = FALSE
  /\ pos' = 0
  /\ pc' = "loop"
  /\ UNCHANGED <<argv, file, tmp_wat, tmp_wasm, wat2wasm, exc, writes, formats, run,
                 orig, log, prevLog, remapVars>>

\* lines 87, 152-153: open(source_path, 'r') raises
ReadFails ==
  /\ pc = "start"
  /\ argv \in {"cpp", "rs"}
  /\ cpp_source' = (argv = "cpp")
  /\ exc' = "OSError"
  /\ pc' = "cleanup"
  /\ UNCHANGED <<argv, file, tmp_wat, tmp_wasm, wat2wasm, source, modified, pos, writes,
                 formats, run, orig, prov, log, prevLog, remapVars>>

\* ------------------------------------------------------- lines 93-135, the loop

\* lines 99-100 and 108-109: the command line of the tool
Command(m) == <<<<"wat2wasm">>, <<"T">>>> \o WAT2WASM_DEFAULT_OPTIONS \o Split(m.options)

\* The tool is a function of its command line and of the text written to
\* TMP_WAT_FILE: r is what it answers for m, now and whenever asked again.
Ran(m, r) ==
  LET known == {k \in wat2wasm : k.cmd = Command(m) /\ k.wat = m.wat}
  IN  /\ known = {} \/ r \in {k.r : k \in known}
      /\ wat2wasm' = wat2wasm \cup {[cmd |-> Command(m), wat |-> m.wat, r |-> r]}

\* line 101: pos = wat_match.span()[1]; and pos = wat_match.span(2)[1]
ResumePos_BodyEnd(m) == m.watEnd
ResumePos(m) == m.end

\* line 114: continue; and break
OnCompileFailure_Break == "finalize"
OnCompileFailure == "loop"

\* lines 124-125: if new_wasm != cur_wasm: modified = True; and modified = True
\* without the test
ModifiedAfterMatch_Always(new_wasm, cur_wasm, was) == TRUE
ModifiedAfterMatch(new_wasm, cur_wasm, was) == IF new_wasm # cur_wasm THEN TRUE ELSE was

Zeros(s) == [i \in 1..Len(s) |-> 0]

\* The history record of one iteration.
Entry(kind, m, r, w, after, out) ==
  [kind   |-> kind,        \* "fail", "same", "replace", "insert"
   prev   |-> pos,         \* pos when the iteration began
   start  |-> m.start,     \* wat_match.span()
   at     |-> pos',        \* pos when the iteration ended
   watAt  |-> m.watAt,     \* wat_match.span(2)[0]
   cmd    |-> Command(m),
   wat    |-> m.wat,
   r      |-> r,
   lit    |-> w,           \* wasm_match
   before |-> source,
   after  |-> after,
   out    |-> out,         \* what report_wat_errors printed
   origStart |-> prov[m.start + 1],   \* where the block starts in orig
   origLine  |-> CountNl(orig, prov[m.watAt]),   \* newlines of orig before its body
   gone   |-> IF kind = "replace"     \* the tokens of orig this iteration removed
              THEN {prov[j] : j \in (w.begin + 1)..w.end} \ {0}
              ELSE {}]

\* line 95: no further block
NoMoreBlocks ==
  /\ pc = "loop"
  /\ ~WAT_RE_search(source, pos).found
  /\ pc' = "finalize"
  /\ UNCHANGED <<argv, file, tmp_wat, tmp_wasm, wat2wasm, cpp_source, source, modified,
                 pos, exc, writes, formats, run, orig, prov, log, prevLog, remapVars>>

\* lines 94-110, 152-153: subprocess.run raises, the tool is not in PATH
Wat2WasmMissing ==
  /\ pc = "loop"
  /\ LET wat_match == WAT_RE_search(source, pos)
     IN  /\ wat_match.found
         /\ pos' = ResumePos(wat_match)
  /\ tmp_wat' = TRUE
  /\ exc' = "OSError"
  /\ pc' = "cleanup"
  /\ UNCHANGED <<argv, file, tmp_wasm, wat2wasm, cpp_source, source, modified, writes,
                 formats, run, orig, prov, log, prevLog, remapVars>>

\* lines 94-114: the tool fails on the block
CompileFails ==
  /\ pc = "loop"
  /\ LET wat_match == WAT_RE_search(source, pos)
     IN  /\ wat_match.found
         /\ \E r \in Results :
              /\ r.returncode # 0
              /\ Ran(wat_match, r)
              /\ pos' = ResumePos(wat_match)
              /\ log' = Append(log, Entry("fail", wat_match, r, NoMatch, source,
                                          report_wat_errors(r.stderr, source, "P",
                                                            wat_match.watAt)))
  /\ tmp_wat' = TRUE
  /\ pc' = OnCompileFailure
  /\ UNCHANGED <<argv, file, tmp_wasm, cpp_source, source, modified, exc, writes,
                 formats, run, orig, prov, prevLog, remapVars>>

\* lines 94-124: the literal after the block holds the compiled bytes already
LiteralUpToDate ==
  /\ pc = "loop"
  /\ LET wat_match == WAT_RE_search(source, pos)
     IN  /\ wat_match.found
         /\ \E r \in Results :
              LET new_wasm   == hex(r.wasm)
                  wasm_match == wasm_re_match(cpp_source, source, ResumePos(wat_match))
                  cur_wasm   == translate(Slice(source, wasm_match.begin, wasm_match.end))
              IN  /\ r.returncode = 0
                  /\ Ran(wat_match, r)
                  /\ pos' = ResumePos(wat_match)
                  /\ wasm_match.found
                  /\ new_wasm = cur_wasm
                  /\ modified' = ModifiedAfterMatch(new_wasm, cur_wasm, modified)
                  /\ log' = Append(log, Entry("same", wat_match, r, wasm_match, source, << >>))
  /\ tmp_wat' = TRUE
  /\ tmp_wasm' = TRUE
  /\ UNCHANGED <<argv, file, pc, cpp_source, source, exc, writes, formats, run, orig,
                 prov, prevLog, remapVars>>

\* lines 94-127: the literal after the block holds something else
ReplacePayload ==
  /\ pc = "loop"
  /\ LET wat_match == WAT_RE_search(source, pos)
     IN  /\ wat_match.found
         /\ \E r \in Results :
              LET new_wasm   == hex(r.wasm)
                  wasm_match == wasm_re_match(cpp_source, source, ResumePos(wat_match))
                  cur_wasm   == translate(Slice(source, wasm_match.begin, wasm_match.end))
                  after      == Join3(source, wasm_match.begin, new_wasm, wasm_match.end)
              IN  /\ r.returncode = 0
                  /\ Ran(wat_match, r)
                  /\ pos' = ResumePos(wat_match)
                  /\ wasm_match.found
                  /\ new_wasm # cur_wasm
                  /\ modified' = ModifiedAfterMatch(new_wasm, cur_wasm, modified)
                  /\ source' = after
                  /\ prov' = Join3(prov, wasm_match.begin, Zeros(new_wasm), wasm_match.end)
                  /\ log' = Append(log, Entry("replace", wat_match, r, wasm_match, after, << >>))
  /\ tmp_wat' = TRUE
  /\ tmp_wasm' = TRUE
  /\ UNCHANGED <<argv, file, pc, cpp_source, exc, writes, formats, run, orig, prevLog,
                 remapVars>>

\* lines 94-120 and 128-135: no literal after the block
InsertLiteral ==
  /\ pc = "loop"
  /\ LET wat_match == WAT_RE_search(source, pos)
     IN  /\ wat_match.found
         /\ \E r \in Results :
              LET new_wasm   == hex(r.wasm)
                  at         == ResumePos(wat_match)
                  wasm_match == wasm_re_match(cpp_source, source, at)
                  stmt       == NewLiteral(cpp_source, new_wasm)
                  after      == Join3(source, at, stmt, at)
              IN  /\ r.returncode = 0
                  /\ Ran(wat_match, r)
                  /\ pos' = at
                  /\ ~wasm_match.found
                  /\ modified' = TRUE
                  /\ source' = after
                  /\ prov' = Join3(prov, at, Zeros(stmt), at)
                  /\ log' = Append(log, Entry("insert", wat_match, r, wasm_match, after, << >>))
  /\ tmp_wat' = TRUE
  /\ tmp_wasm' = TRUE
  /\ UNCHANGED <<argv, file, pc, cpp_source, exc, writes, formats, run, orig, prevLog,
                 remapVars>>

\* ------------------------------------------------------------- lines 138-158

\* line 138: nothing was modified
NothingToWrite ==
  /\ pc = "finalize"
  /\ ~modified
  /\ pc' = "cleanup"
  /\ UNCHANGED <<argv, file, tmp_wat, tmp_wasm, wat2wasm, cpp_source, source, modified,
                 pos, exc, writes, formats, run, orig, prov, log, prevLog, remapVars>>

\* lines 138-140
WriteSource ==
  /\ pc = "finalize"
  /\ modified
  /\ file' = source
  /\ writes' = writes + 1
  /\ pc' = "format"
  /\ UNCHANGED <<argv, tmp_wat, tmp_wasm, wat2wasm, cpp_source, source, modified, pos,
                 exc, formats, run, orig, prov, log, prevLog, remapVars>>

\* lines 139, 152-153: open(source_path, 'w') raises
WriteFails ==
  /\ pc = "finalize"
  /\ modified
  /\ exc' = "OSError"
  /\ pc' = "cleanup"
  /\ UNCHANGED <<argv, file, tmp_wat, tmp_wasm, wat2wasm, cpp_source, source, modified,
                 pos, writes, formats, run, orig, prov, log, prevLog, remapVars>>

\* lines 144-149: the formatter is run on source_path, and whatever it raises
\* is dropped.  What the formatter does to the file is not part of the script.
RunFormatter ==
  /\ pc = "format"
  /\ formats' = formats + 1
  /\ pc' = "cleanup"
  /\ UNCHANGED <<argv, file, tmp_wat, tmp_wasm, wat2wasm, cpp_source, source, modified,
                 pos, exc, writes, run, orig, prov, log, prevLog, remapVars>>

\* lines 155-158: if os.path.exists(f): os.remove(f); and no removal
RemoveIfExists_Keeps(exists) == exists
RemoveIfExists(exists) == IF exists THEN FALSE ELSE exists

RemoveTmpFiles ==
  /\ pc = "cleanup"
  /\ tmp_wat' = RemoveIfExists(tmp_wat)
  /\ tmp_wasm' = RemoveIfExists(tmp_wasm)
  /\ pc' = "done"
  /\ UNCHANGED <<argv, file, wat2wasm, cpp_source, source, modified, pos, exc, writes,
                 formats, run, orig, prov, log, prevLog, remapVars>>

\* The script, having ended without an exception, is run again with the same
\* argument, the tool unchanged.
RunAgain ==
  /\ pc = "done"
  /\ run = 1
  /\ exc = ""
  /\ run' = 2
  /\ pc' = "start"
  /\ orig' = file
  /\ prevLog' = log
  /\ log' = << >>
  /\ prov' = << >>
  /\ source' = << >>
  /\ cpp_source' = FALSE
  /\ modified' = FALSE
  /\ pos' = 0
  /\ exc' = ""
  /\ writes' = 0
  /\ formats' = 0
  /\ UNCHANGED <<argv, file, tmp_wat, tmp_wasm, wat2wasm, remapVars>>

Next ==
  \/ MissingArgument
  \/ UnsupportedExtension
  \/ ReadSource
  \/ ReadFails
  \/ NoMoreBlocks
  \/ Wat2WasmMissing
  \/ CompileFails
  \/ LiteralUpToDate
  \/ ReplacePayload
  \/ InsertLiteral
  \/ NothingToWrite
  \/ WriteSource
  \/ WriteFails
  \/ RunFormatter
  \/ RemoveTmpFiles
  \/ RunAgain

Spec == Init /\ [][Next]_vars

\* The script runs on: every statement it reaches is executed.  The files are
\* one segment shorter than those of Spec.
FairSpec == Start(MaxSegs - 1) /\ [][Next]_vars /\ WF_vars(Next)

\* ------------------------------------------------ report_wat_errors alone

Newlines(n) == [i \in 1..n |-> "nl"]

\* Pieces of a diagnostic: places in TMP_WAT_FILE (line 1, line 9, line 07),
\* other text, a line break, the bare name, a colon, a bare number.
ErrPieces ==
  {<<"T", ":", "1", ":">>, <<"T", ":", "9", ":">>, <<"T", ":", "0", "7", ":">>,
   <<"x">>, <<"nl">>, <<"T">>, <<":">>, <<"9">>}

ErrTexts ==
  {Flatten(ss) : ss \in UNION {[1..n -> ErrPieces] : n \in 0..MaxErrSegs}}

\* report_wat_errors is given errmsg, a source of pos lines before the body
\* of the block, and pos.
InitRemap ==
  /\ errmsg \in ErrTexts
  /\ pos \in 0..MaxWatLine
  /\ source = Newlines(pos)
  /\ printed = << >>
  /\ pc = "report"
  /\ argv = "cpp"
  /\ file = source
  /\ tmp_wat = TRUE
  /\ tmp_wasm = FALSE
  /\ wat2wasm = {}
  /\ cpp_source = TRUE
  /\ modified = FALSE
  /\ exc = ""
  /\ writes = 0
  /\ formats = 0
  /\ run = 1
  /\ orig = source
  /\ prov = << >>
  /\ log = << >>
  /\ prevLog = << >>

\* lines 55-70
Report ==
  /\ pc = "report"
  /\ printed' = report_wat_errors(errmsg, source, "P", pos)
  /\ pc' = "reported"
  /\ UNCHANGED <<argv, file, tmp_wat, tmp_wasm, wat2wasm, cpp_source, source, modified,
                 pos, exc, writes, formats, run, orig, prov, log, prevLog, errmsg>>

NextRemap == Report

SpecRemap == InitRemap /\ [][NextRemap]_vars

\* ------------------------------------------------------------ the properties

Entries == {log[i] : i \in 1..Len(log)}

\* The record of the iteration just made.  Every record is that one in the
\* state its iteration leads to and is not changed afterwards, so what holds of
\* the latest record in every reachable state holds of every record.
Latest == IF log = << >> THEN {} ELSE {log[Len(log)]}
Earlier == {log[i] : i \in 1..(Len(log) - 1)}
Spliced(e) == e.kind \in {"replace", "insert"}
Compiled(e) == e.kind \in {"same", "replace", "insert"}
Ignoring(s, chars) == SelectSeq(s, LAMBDA t : t \notin chars)
Payload(s, w) == Slice(s, w.begin, w.end)

\* The literal statement that follows offset p of text s, in this run's dialect.
LiteralAt(s, p) == wasm_re_match(cpp_source, s, p)

\* The blocks a scan of s from offset p finds, one after the other.
RECURSIVE NumBlocks(_, _)
NumBlocks(s, p) ==
  LET m == WatSearchFrom(s, p + 1)
  IN  IF m.found THEN 1 + NumBlocks(s, m.end) ELSE 0

\* The loop of this run has ended without an exception.
LoopDone == pc \in {"finalize", "format", "cleanup", "done"} /\ exc = ""

\* C1: a block without a literal gets one inserted right after its closing
\* sequence, holding the hex of the compiled bytes, which the dialect's pattern
\* matches there; and a second run over the text the first run left, the tool
\* answering the same, finds every compiled block's literal equal, changes
\* nothing and leaves modified false.
Thm_C1 ==
  /\ \A e \in Latest : e.kind = "insert" =>
       LET w == LiteralAt(e.after, e.at)
           n == Len(e.after) - Len(e.before)
       IN  /\ e.before[e.at - 1] = "star" /\ e.before[e.at] = "slash"
           /\ e.after = Slice(e.before, 0, e.at) \o Slice(e.after, e.at, e.at + n)
                         \o Slice(e.before, e.at, Len(e.before))
           /\ w.found
           /\ w.stop = e.at + n
           /\ Payload(e.after, w) = hex(e.r.wasm)
  /\ (run = 2 /\ LoopDone) =>
       /\ ~modified
       /\ source = orig
       /\ file = orig
       /\ writes = 0
       /\ Len(log) = Len(prevLog)
       /\ \A i \in 1..Len(log) :
            /\ log[i].wat = prevLog[i].wat
            /\ log[i].r = prevLog[i].r
            /\ log[i].kind = IF prevLog[i].kind = "fail" THEN "fail" ELSE "same"

Witness_C1 ==
  /\ run = 2
  /\ pc = "done"
  /\ exc = ""
  /\ Len(prevLog) >= 2
  /\ \A i \in 1..Len(prevLog) : prevLog[i].kind = "insert"
  /\ \A i \in 1..Len(log) : log[i].kind = "same"

\* C2: a replacement puts the new hex in place of exactly the payload, between
\* the opening quote and the closing tokens of the statement; an insertion puts
\* the new statement at the offset right after the block; nothing else changes,
\* so the tokens of the file as read that are outside the replaced payloads are
\* all in the buffer, in their order.
Thm_C2 ==
  /\ \A e \in Latest :
       /\ e.kind = "replace" =>
            LET b == e.lit.begin
                n == e.lit.end
                h == hex(e.r.wasm)
            IN  /\ e.after = Slice(e.before, 0, b) \o h \o Slice(e.before, n, Len(e.before))
                /\ e.before[b] = "q"
                /\ e.before[n + 1] = "q" /\ e.before[n + 2] = "rp"
                /\ "sc" \notin {e.before[j] : j \in (b + 1)..(n + 2)}
                /\ e.at <= b
       /\ e.kind = "insert" =>
            /\ e.after = Slice(e.before, 0, e.at)
                         \o Slice(e.after, e.at, e.at + Len(e.after) - Len(e.before))
                         \o Slice(e.before, e.at, Len(e.before))
            /\ e.before[e.at] = "slash"
       /\ e.kind \in {"fail", "same"} => e.after = e.before
  /\ pc \in {"loop", "finalize", "format"} =>
       LET kept == SelectSeq(prov, LAMBDA k : k # 0)
       IN  /\ Len(prov) = Len(source)
           /\ \A i \in 1..Len(source) : prov[i] # 0 => source[i] = orig[prov[i]]
           /\ \A i \in 1..(Len(kept) - 1) : kept[i] < kept[i + 1]
           /\ (1..Len(orig)) \ {kept[i] : i \in 1..Len(kept)} = UNION {e.gone : e \in Entries}

Witness_C2 ==
  /\ pc = "finalize"
  /\ \E e \in Entries : e.kind = "replace" /\ Len(e.after) # Len(e.before)
  /\ \E e \in Entries : e.kind = "insert"

\* C3: a failing block changes neither the buffer nor the modified flag, every
\* block is scanned whatever failed before it, in order, and every block that
\* compiled has its literal, holding its bytes, right after it.
Thm_C3 ==
  /\ \A e \in Latest : e.kind = "fail" => e.after = e.before
  /\ pc \in {"loop", "finalize"} => (modified <=> \E e \in Entries : Spliced(e))
  /\ \A d \in Earlier : \A e \in Latest : d.at <= e.start
  /\ pc = "finalize" =>
       /\ Len(log) = NumBlocks(source, 0)
       /\ \A e \in Entries : Compiled(e) =>
            LET w == LiteralAt(source, e.at)
            IN  w.found /\ Ignoring(Payload(source, w), {"sp", "cr", "nl", "q"}) = hex(e.r.wasm)

Witness_C3 ==
  /\ pc = "finalize"
  /\ Len(log) = 2
  /\ log[1].kind = "fail"
  /\ Spliced(log[2])
  /\ modified

\* The diagnostic with every place TMP_WAT_FILE:n: of it, from index i on,
\* rewritten to source_path:(n + L): and every other TMP_WAT_FILE to source_path.
RECURSIVE Remapped(_, _, _)
Remapped(s, i, L) ==
  IF i > Len(s) THEN << >>
  ELSE LET m == LineMatchAt(s, i)
       IN  IF m.found
           THEN <<"P", ":">> \o str(L + int(Slice(s, m.s0, m.s1))) \o <<":">>
                \o Remapped(s, m.end + 1, L)
           ELSE <<IF s[i] = "T" THEN "P" ELSE s[i]>> \o Remapped(s, i + 1, L)

\* C4: the diagnostic printed for a failing block gives line n of the
\* temporary unit as L + n, L the number of newlines before the block's body in
\* the file as read, and the temporary unit's name as the source path.
Claim_C4 ==
  \A e \in Entries : e.kind = "fail" => e.out = Remapped(e.r.stderr, 1, e.origLine)

\* C5 as stated: the payload equal to the compiled hex once its white space
\* and its double quotes are ignored, the buffer is not changed.
Claim_C5 ==
  \A e \in Entries :
    (e.lit.found /\ Ignoring(Payload(e.before, e.lit), WhiteSpace \cup {"q"}) = hex(e.r.wasm))
      => e.after = e.before

\* C5, amended: the payload equal to the compiled hex once its spaces, carriage
\* returns, newlines and double quotes are ignored, the block changes neither
\* the buffer nor the modified flag; when that is so for every block, the file
\* is not written and the formatter is not run.
Thm_C5 ==
  /\ \A e \in Latest :
       (e.lit.found /\ Ignoring(Payload(e.before, e.lit), {"sp", "cr", "nl", "q"}) = hex(e.r.wasm))
         => e.kind = "same" /\ e.after = e.before
  /\ (\A e \in Entries : e.kind = "same") =>
       /\ pc \in {"loop", "finalize"} => ~modified /\ source = orig
       /\ LoopDone => writes = 0 /\ formats = 0 /\ file = orig

Witness_C5 ==
  /\ pc = "done"
  /\ exc = ""
  /\ log # << >>
  /\ \A e \in Entries : e.kind = "same"
  /\ \E e \in Entries : "nl" \in {e.before[j] : j \in (e.lit.begin + 1)..e.lit.end}

\* C6: the file is written at most once, after the loop, exactly when the
\* buffer differs from the text read, which is when modified is true; the
\* formatter runs only after the write; a run without blocks or ended by an
\* exception raised before the write leaves the file as it was and runs no
\* formatter.
Thm_C6 ==
  /\ writes <= 1
  /\ formats <= writes
  /\ writes = 1 => pc \in {"format", "cleanup", "done"} /\ exc = "" /\ file = source
  /\ writes = 0 => file = orig
  /\ pc \in {"loop", "finalize"} => (modified <=> source # orig)
  /\ LoopDone => (modified <=> source # orig)
  /\ (LoopDone /\ pc \in {"cleanup", "done"}) => (writes = 1 <=> source # orig) /\ formats = writes
  /\ (LoopDone /\ log = << >>) => writes = 0 /\ source = orig
  /\ exc # "" => writes = 0 /\ formats = 0 /\ file = orig

Witness_C6 ==
  /\ pc = "done"
  /\ exc = "OSError"
  /\ \E e \in Entries : Spliced(e)
  /\ source # orig
  /\ file = orig

\* C7: every run ends, whatever it met, and when it has ended neither
\* temporary file exists.
Thm_C7 ==
  /\ [](pc = "done" => ~tmp_wat /\ ~tmp_wasm)
  /\ [](pc = "start" => <>(pc = "done"))

Witness_C7 ==
  /\ pc = "done"
  /\ exc = "OSError"
  /\ pos > 0
  /\ \E e \in Entries : Compiled(e)
  /\ ~tmp_wat
  /\ ~tmp_wasm

\* C8 as stated: after a splice the next search starts right after the
\* inserted or replaced literal statement.
Claim_C8 ==
  (pc = "loop" /\ log # << >> /\ Spliced(log[Len(log)])) =>
    pos = LiteralAt(source, log[Len(log)].at).stop

\* C8, amended: after a splice the next search starts at the offset right
\* after the block's closing sequence, which the splice left where it was and
\* where the literal statement now begins; no block starts between there and
\* the end of that statement, so the search finds what a search from the end of
\* the statement finds.
Thm_C8 ==
  (pc = "loop" /\ log # << >> /\ Spliced(log[Len(log)])) =>
    LET e == log[Len(log)]
        w == LiteralAt(source, pos)
    IN  /\ pos > 1
        /\ source[pos - 1] = "star" /\ source[pos] = "slash"
        /\ Slice(source, 0, pos) = Slice(e.before, 0, pos)
        /\ "star" \notin {source[j] : j \in (e.watAt + 1)..(pos - 2)}
        /\ w.found
        /\ pos < w.stop
        /\ WatSearchFrom(source, pos + 1) = WatSearchFrom(source, w.stop + 1)

Witness_C8 ==
  /\ pc = "loop"
  /\ log # << >>
  /\ log[Len(log)].kind = "replace"
  /\ WatSearchFrom(source, pos + 1).found

\* C9: report_wat_errors rewrites every place TMP_WAT_FILE:n: of the
\* diagnostic once, to n plus the line of the body (pos, the source given
\* being pos newlines), and nothing else but the name of the temporary unit.
Claim_C9 ==
  pc = "reported" => printed = Remapped(errmsg, 1, pos)

====
